---- MODULE Spec2Model ----
(***************************************************************************)
(* Model of the video downloader service (src/app.py): the /download       *)
(* request handler download_video, the option builder                      *)
(* get_download_options, the retention sweep cleanup_downloads, and the    *)
(* storage directory DOWNLOAD_DIR they share.                              *)
(*                                                                         *)
(* Time is counted in minutes.  A text is a sequence of one-character      *)
(* strings.  A directory entry is named by [base, ext], standing for the   *)
(* file name base.ext inside DOWNLOAD_DIR.                                 *)
(***************************************************************************)
EXTENDS Integers, Sequences, FiniteSets, TLC

\* ------------------------------------------------------------------ bounds

\* How many times the clock may advance in one behaviour.
MaxTicks == 2
\* Modification times of the files found at the start of a stand-alone sweep
\* range over 0..MaxSkew minutes.
MaxSkew == 2
\* How many sweeps the scheduler starts while requests are served.
MaxSweeps == 1
\* Titles given to sanitize_filename on its own have at most MaxTitleLen
\* characters, and max_length ranges over 0..MaxLen and the default.
MaxTitleLen == 4
MaxLen == 3

\* -------------------------------------------------------- program constants

DEFAULT_CLEANUP_INTERVAL_HOURS == 24

\* CLEANUP_INTERVAL_HOURS = int(os.getenv(..., DEFAULT_CLEANUP_INTERVAL_HOURS))
CLEANUP_INTERVAL_HOURS == DEFAULT_CLEANUP_INTERVAL_HOURS

\* timedelta(hours=CLEANUP_INTERVAL_HOURS), in minutes
Threshold == CLEANUP_INTERVAL_HOURS * 60

\* Python's None, and a request parameter that is not in the query string.
None == "<None>"

\* ---------------------------------------------------------------- universe

Reqs == {"r1", "r2"}

\* Values of the url query parameter: absent, empty, or one of two URLs.
UrlArgs == {None, "", "https://a.example/v1", "https://b.example/v2"}

\* Values of the format query parameter: absent, valid, or unknown.
FormatArgs == {None, "video", "audio", "gif"}

\* Container extensions the engine may choose for a video download.
VideoExts == {"mp4"}

\* 'preferredcodec': 'm4a' of the FFmpegExtractAudio post-processor
AudioExt == "m4a"

\* A subdirectory of DOWNLOAD_DIR (os.path.isfile is false for it).
SubDir == [base |-> <<"cache">>, ext |-> ""]

\* Certificate paths the environment may configure.
CaPaths == {None, "", "/etc/ssl/mitm.pem", "/opt/proxy/ca.pem"}

\* Texts the engine or a failing call may put in an exception.
ErrTexts == {"ERROR: Unsupported URL", "ERROR: network unreachable"}

\* Titles the engine may report: the key absent, a null value, the empty
\* text, or a text.
NoTitle == <<"<absent>">>
NullTitle == <<"<null>">>
EmptyTitle == <<>>
Titles == {NoTitle, NullTitle, EmptyTitle, <<"M", "y", " ", "V", "!">>}

VARIABLES
  now,            \* wall clock, minutes
  ticks,          \* how often the clock advanced
  dirState,       \* DOWNLOAD_DIR: "ok", "missing" or "unreadable"
  fs,             \* entries of DOWNLOAD_DIR: name -> [kind, mtime, complete, writer]
  denied,         \* entries the OS refuses to unlink (PermissionError)
  CA_CERT_PATH,   \* os.getenv('CA_CERT_PATH')
  caOnDisk,       \* the certificate paths that exist on disk
  \* one request per id
  pc,             \* "idle", "engine", "writing", "scan", "exists", "send", "done"
  url,            \* the url argument
  ftype,          \* format_type: the format argument, 'video' when absent
  ydl_opts,       \* the options the engine was given
  wfile,          \* the file the engine call is writing
  info,           \* the title in the engine's metadata
  downloaded_file,\* downloaded_files[0]
  raised,         \* the exception the handler caught
  response,       \* what the handler returned
  engine_calls,   \* history: engine invocations of the request
  scans,          \* history: glob scans of the request
  responses,      \* history: responses of the request
  \* the sweeper
  spc,            \* "idle", "listdir", "loop", "getmtime", "remove"
  sweepNow,       \* now = datetime.now() of the running sweep
  todo,           \* listed entries not yet examined
  item,           \* the entry under examination
  count,          \* count of removed files
  sweepLog,       \* the last log line of the sweep: none, count or error
  snap,           \* history: the directory as listed
  removed,        \* history: entries this sweep removed
  sweeps,         \* history: sweeps started
  \* the option builder, applied to free inputs
  optIn,          \* [format_type, base, ca, exists]
  optOut,         \* its result
  \* the sanitizer, applied to free inputs
  sanIn,          \* [title, max_length]
  sanOut          \* its result

reqVars == <<pc, url, ftype, ydl_opts, wfile, info, downloaded_file,
             raised, response, engine_calls, scans, responses>>
sweepVars == <<spc, sweepNow, todo, item, count, sweepLog, snap, removed, sweeps>>
envVars == <<dirState, denied, CA_CERT_PATH, caOnDisk>>
optVars == <<optIn, optOut, sanIn, sanOut>>
vars == <<now, ticks, fs, envVars, reqVars, sweepVars, optVars>>

\* --------------------------------------------------------- the storage key

\* hashlib.md5(url.encode()).hexdigest()[:8], tabulated on the URLs above.
url_hash(u) ==
  CASE u = "https://a.example/v1" -> "3341dd87"
    [] u = "https://b.example/v2" -> "45ea9ccc"

\* A key that also numbers the entries already in the directory.
base_filenameByDir(u) == <<"video_", url_hash(u), Cardinality(DOMAIN fs)>>

\* f'video_{url_hash}'
base_filename(u) == <<"video_", url_hash(u)>>

BaseNames == {base_filename(u) : u \in UrlArgs \ {None, ""}}

\* ------------------------------------------------------------------- texts

\* The characters of the model's texts, by the classes the code's regular
\* expressions and urllib's quote distinguish.
AsciiWord == {"M", "y", "V", "v", "i", "d", "e", "o", "m", "p", "4", "a", "w", "b", "_"}
\* "E'" stands for the one character U+00C9, whose UTF-8 bytes are C3 89.
NonAsciiWord == {"E'"}
Spaces == {" ", "\t"}
Hyphen == "-"

\* \w of a str pattern: letters and digits of any script, and underscore
IsWord(c) == c \in AsciiWord \cup NonAsciiWord

\* re.sub(r'[^\w\s-]', '', filename)
StripUnsafe(t) == SelectSeq(t, LAMBDA c : IsWord(c) \/ c \in Spaces \/ c = Hyphen)

\* Every whitespace character, not every run, becomes an underscore.
CollapseSpacesEach(t) == [i \in 1..Len(t) |-> IF t[i] \in Spaces THEN "_" ELSE t[i]]

\* re.sub(r'\s+', '_', filename)
RECURSIVE CollapseSpaces(_)
CollapseSpaces(t) ==
  IF t = <<>> THEN <<>>
  ELSE IF Head(t) \in Spaces
       THEN IF Len(t) > 1 /\ t[2] \in Spaces
            THEN CollapseSpaces(Tail(t))
            ELSE <<"_">> \o CollapseSpaces(Tail(t))
       ELSE <<Head(t)>> \o CollapseSpaces(Tail(t))

\* Index of the last "." of t that follows a character other than ".", or 0:
\* where os.path.splitext splits.
SplitAt(t) ==
  LET dots == {i \in 1..Len(t) : t[i] = "." /\ \E j \in 1..(i - 1) : t[j] # "."}
  IN  IF dots = {} THEN 0 ELSE CHOOSE i \in dots : \A j \in dots : j <= i

\* os.path.splitext(t): <<name, ext>>
splitext(t) ==
  IF SplitAt(t) = 0 THEN <<t, <<>>>>
  ELSE <<SubSeq(t, 1, SplitAt(t) - 1), SubSeq(t, SplitAt(t), Len(t))>>

\* t[:k] of Python: a negative k counts from the end
Slice(t, k) ==
  IF k >= 0 THEN SubSeq(t, 1, IF k < Len(t) THEN k ELSE Len(t))
  ELSE SubSeq(t, 1, IF Len(t) + k > 0 THEN Len(t) + k ELSE 0)

DEFAULT_MAX_FILENAME_LENGTH == 100

sanitize_filename(filename, max_length) ==
  LET clean == CollapseSpaces(StripUnsafe(filename))
      name == splitext(clean)[1]
      ext == splitext(clean)[2]
  IN  IF Len(clean) > max_length
      THEN Slice(name, max_length - Len(ext)) \o ext
      ELSE clean

\* urllib.parse.quote of one character: unreserved characters and "/" are
\* kept, the rest becomes the %XX of its UTF-8 bytes.
QuoteChar(c) ==
  IF c \in AsciiWord \cup {Hyphen, ".", "~", "/"} THEN <<c>>
  ELSE CASE c = "E'" -> <<"%", "C", "3", "%", "8", "9">>
         [] c = " " -> <<"%", "2", "0">>
         [] c = "\t" -> <<"%", "0", "9">>
         [] c = "!" -> <<"%", "2", "1">>

RECURSIVE quote(_)
quote(t) == IF t = <<>> THEN <<>> ELSE QuoteChar(Head(t)) \o quote(Tail(t))

\* The characters of an extension.
ExtText(e) ==
  CASE e = "mp4" -> <<"m", "p", "4">>
    [] e = "webm" -> <<"w", "e", "b", "m">>
    [] e = "m4a" -> <<"m", "4", "a">>
    [] e = "" -> <<>>

\* os.path.splitext(downloaded_file)[1]
file_ext(f) == IF f.ext = "" THEN <<>> ELSE <<".">> \o ExtText(f.ext)

\* info.get('title', 'video')
original_title(title) == IF title = NoTitle THEN <<"v", "i", "d", "e", "o">> ELSE title

\* quote(f"{safe_title}{file_ext}")
encoded_filename(title, f) ==
  quote(sanitize_filename(original_title(title), DEFAULT_MAX_FILENAME_LENGTH) \o file_ext(f))

\* ---------------------------------------------------------------- options

\* The certificate branch without the os.path.exists test.
TrustOptionsUnchecked(ca, exists) ==
  IF ca # None /\ ca # ""
  THEN [nocheckcertificate |-> FALSE, cafile |-> ca]
  ELSE [nocheckcertificate |-> TRUE]

\* The certificate branch of get_download_options.
TrustOptions(ca, exists) ==
  IF ca # None /\ ca # "" /\ exists
  THEN [nocheckcertificate |-> FALSE, cafile |-> ca]
  ELSE [nocheckcertificate |-> TRUE]

\* The post-processing branch of get_download_options.
PostOptions(format_type) ==
  IF format_type = "audio"
  THEN [postprocessors |-> <<[key |-> "FFmpegExtractAudio", preferredcodec |-> AudioExt]>>]
  ELSE <<>>

\* 'best' if format_type == 'video' else 'bestaudio'
format_opt(format_type) == IF format_type = "video" THEN "best" ELSE "bestaudio"

\* get_download_options(format_type, base_filename), with the environment it
\* reads: CA_CERT_PATH and os.path.exists(CA_CERT_PATH).
get_download_options(format_type, base, ca, exists) ==
  [outtmpl |-> [dir |-> "DOWNLOAD_DIR", base |-> base, ext |-> "%(ext)s"],
   format |-> format_opt(format_type)]
  @@ TrustOptions(ca, exists) @@ PostOptions(format_type)

NoOptions == <<>>

\* --------------------------------------------------- requests and responses

NoName == [base |-> <<>>, ext |-> ""]

\* An error message: a fixed text and, for 'file missing', the path in it.
Msg(text, arg) == [msg |-> text, arg |-> arg]
NoMsg == Msg("", NoName)
MsgUrlRequired == Msg("URL parameter is required", NoName)
MsgInvalidFormat == Msg("Invalid format type", NoName)
\* DownloadError('...') of line 187: download finished but no file found
MsgNotFound == Msg("download finished but no file found", NoName)
\* DownloadError(f'...: {downloaded_file}') of line 191
MsgMissing(f) == Msg("downloaded file not found", f)
\* the fixed message of line 221: internal server error
MsgInternal == Msg("internal server error", NoName)

Exc(cls, m) == [cls |-> cls, text |-> m]
NoExc == Exc("", NoMsg)

NoResponse ==
  [status |-> 0, kind |-> "none", error |-> NoMsg, file |-> NoName,
   complete |-> FALSE, writer |-> "", filename |-> <<>>, filetype |-> ""]

\* jsonify({'error': m}), status
JsonError(status, m) == [NoResponse EXCEPT !.status = status, !.kind = "json", !.error = m]

\* send_file(...) with the three headers: the file as it is on disk when it
\* is opened.
FileResponse(f, rec, title, format_type) ==
  [NoResponse EXCEPT !.status = 200, !.kind = "file", !.file = f,
                     !.complete = rec.complete, !.writer = rec.writer,
                     !.filename = encoded_filename(title, f),
                     !.filetype = format_type]

\* request.args.get('format', 'video')
format_type(arg) == IF arg = None THEN "video" ELSE arg

\* The format is checked before the url.
ValidationResponseFormatFirst(u, fmt) ==
  IF fmt \notin {"video", "audio"} THEN JsonError(400, MsgInvalidFormat)
  ELSE IF u = None \/ u = "" THEN JsonError(400, MsgUrlRequired)
  ELSE NoResponse

\* The two checks before the try block: the response that rejects the
\* request, or NoResponse.
ValidationResponse(u, fmt) ==
  IF u = None \/ u = "" THEN JsonError(400, MsgUrlRequired)
  ELSE IF fmt \notin {"video", "audio"} THEN JsonError(400, MsgInvalidFormat)
  ELSE NoResponse

\* Without the except DownloadError clause: every failure is generic.
ErrorResponseGenericOnly(e) == JsonError(500, MsgInternal)

\* Without the except Exception clause: the framework answers an uncaught
\* exception with its own HTML error page.
ErrorResponseUncaught(e) ==
  IF e.cls = "DownloadError" THEN JsonError(500, e.text)
  ELSE [NoResponse EXCEPT !.status = 500, !.kind = "html"]

\* The generic clause answers with str(e).
ErrorResponseLeaky(e) == JsonError(500, e.text)

\* The two except clauses of download_video.
ErrorResponse(e) ==
  IF e.cls = "DownloadError" THEN JsonError(500, e.text)
  ELSE JsonError(500, MsgInternal)

\* glob.glob(os.path.join(DOWNLOAD_DIR, base_filename + '.*'))
GlobMatches(dir, base) == {f \in DOMAIN dir : f.base = base /\ f.ext # ""}

\* ------------------------------------------------------------- directory

FileRec(mtime, complete, writer) ==
  [kind |-> "file", mtime |-> mtime, complete |-> complete, writer |-> writer]
DirRec(mtime) == [kind |-> "dir", mtime |-> mtime, complete |-> TRUE, writer |-> "old"]

Put(dir, f, rec) == [n \in DOMAIN dir \cup {f} |-> IF n = f THEN rec ELSE dir[n]]
Unlink(dir, f) == [n \in DOMAIN dir \ {f} |-> dir[n]]

\* os.path.exists in place of os.path.isfile: a subdirectory passes.
isfileOrDir(dir, f) == f \in DOMAIN dir

\* os.path.isfile(item_path)
isfile(dir, f) == f \in DOMAIN dir /\ dir[f].kind = "file"

\* The age test with >= in place of >.
ExpiredInclusive(t, mtime) == t - mtime >= Threshold

\* now - file_mtime > timedelta(hours=CLEANUP_INTERVAL_HOURS)
Expired(t, mtime) == t - mtime > Threshold

\* ------------------------------------------------------------ the request

\* Extensions the engine may give the file it writes for a format.
EngineExts(fmt) == IF fmt = "audio" THEN {AudioExt} ELSE VideoExts

\* Request ids are handed out in order of arrival.
Arrived(r) == \A q \in Reqs : (q = "r1" /\ r = "r2") => pc[q] # "idle"

\* download_video returns resp; its local variables are gone.
Return(r, resp) ==
  /\ response' = [response EXCEPT ![r] = resp]
  /\ responses' = [responses EXCEPT ![r] = @ + 1]
  /\ pc' = [pc EXCEPT ![r] = "done"]
  /\ ydl_opts' = [ydl_opts EXCEPT ![r] = NoOptions]
  /\ wfile' = [wfile EXCEPT ![r] = NoName]
  /\ info' = [info EXCEPT ![r] = NoTitle]
  /\ downloaded_file' = [downloaded_file EXCEPT ![r] = NoName]

\* A handler that calls the engine once more after an engine failure.
RaiseRetry(r, e) ==
  IF e.cls = "yt_dlp.utils.DownloadError" /\ engine_calls[r] < 2
  THEN /\ engine_calls' = [engine_calls EXCEPT ![r] = @ + 1]
       /\ pc' = [pc EXCEPT ![r] = "engine"]
       /\ UNCHANGED <<raised, response, responses, ydl_opts, wfile, info, downloaded_file>>
  ELSE /\ raised' = [raised EXCEPT ![r] = e]
       /\ Return(r, ErrorResponse(e))
       /\ UNCHANGED engine_calls

\* An exception reaches the except clauses of download_video: the handler
\* logs it and returns the error response; nothing is tried again.
Raise(r, e) ==
  /\ raised' = [raised EXCEPT ![r] = e]
  /\ Return(r, ErrorResponse(e))
  /\ UNCHANGED engine_calls

\* download_video up to the call of the engine: the arguments, the two
\* validations, the storage key, the options, and ydl.extract_info entered.
Request(r, u, f) ==
  /\ pc[r] = "idle"
  /\ Arrived(r)
  /\ url' = [url EXCEPT ![r] = u]
  /\ ftype' = [ftype EXCEPT ![r] = format_type(f)]
  /\ IF ValidationResponse(u, format_type(f)) # NoResponse
     THEN /\ Return(r, ValidationResponse(u, format_type(f)))
          /\ UNCHANGED engine_calls
     ELSE /\ ydl_opts' = [ydl_opts EXCEPT ![r] =
                 get_download_options(format_type(f), base_filename(u),
                                      CA_CERT_PATH, CA_CERT_PATH \in caOnDisk)]
          /\ engine_calls' = [engine_calls EXCEPT ![r] = @ + 1]
          /\ pc' = [pc EXCEPT ![r] = "engine"]
          /\ UNCHANGED <<response, responses, wfile, info, downloaded_file>>
  /\ UNCHANGED <<now, ticks, fs, envVars, sweepVars, optVars, raised, scans>>

\* The engine starts to write its output file under the template, with an
\* extension of its choice; the file is on disk and incomplete.
EngineWrite(r, e) ==
  /\ pc[r] = "engine"
  /\ e \in EngineExts(ftype[r])
  /\ wfile' = [wfile EXCEPT ![r] = [base |-> ydl_opts[r].outtmpl.base, ext |-> e]]
  /\ fs' = Put(fs, wfile'[r], FileRec(now, FALSE, r))
  /\ pc' = [pc EXCEPT ![r] = "writing"]
  /\ UNCHANGED <<now, ticks, envVars, sweepVars, optVars, url, ftype, ydl_opts,
                 info, downloaded_file, raised, response, engine_calls, scans, responses>>

\* The engine finishes the file it was writing, if that file is still its
\* own, and extract_info returns the metadata.
EngineFinish(r, t) ==
  /\ pc[r] = "writing"
  /\ fs' = IF wfile[r] \in DOMAIN fs /\ fs[wfile[r]].writer = r
           THEN Put(fs, wfile[r], FileRec(now, TRUE, r))
           ELSE fs
  /\ info' = [info EXCEPT ![r] = t]
  /\ pc' = [pc EXCEPT ![r] = "scan"]
  /\ UNCHANGED <<now, ticks, envVars, sweepVars, optVars, url, ftype, ydl_opts,
                 wfile, downloaded_file, raised, response, engine_calls, scans, responses>>

\* extract_info returns the metadata without having written a file.
EngineNoFile(r, t) ==
  /\ pc[r] = "engine"
  /\ info' = [info EXCEPT ![r] = t]
  /\ pc' = [pc EXCEPT ![r] = "scan"]
  /\ UNCHANGED <<now, ticks, fs, envVars, sweepVars, optVars, url, ftype, ydl_opts,
                 wfile, downloaded_file, raised, response, engine_calls, scans, responses>>

\* extract_info raises (yt_dlp.utils.DownloadError, a network error, ...);
\* what it wrote so far stays on disk.
EngineFail(r, text) ==
  /\ pc[r] \in {"engine", "writing"}
  /\ Raise(r, Exc("yt_dlp.utils.DownloadError", Msg(text, NoName)))
  /\ UNCHANGED <<now, ticks, fs, envVars, sweepVars, optVars, url, ftype, scans>>

\* glob.glob(...), the emptiness check, and downloaded_files[0]: the order
\* of the listing is the file system's, so any match may come first.
Scan(r) ==
  /\ pc[r] = "scan"
  /\ scans' = [scans EXCEPT ![r] = @ + 1]
  /\ IF GlobMatches(fs, base_filename(url[r])) = {}
     THEN Raise(r, Exc("DownloadError", MsgNotFound))
     ELSE /\ \E f \in GlobMatches(fs, base_filename(url[r])) :
               downloaded_file' = [downloaded_file EXCEPT ![r] = f]
          /\ pc' = [pc EXCEPT ![r] = "exists"]
          /\ UNCHANGED <<raised, response, responses, ydl_opts, wfile, info, engine_calls>>
  /\ UNCHANGED <<now, ticks, fs, envVars, sweepVars, optVars, url, ftype>>

\* if not os.path.exists(downloaded_file): raise DownloadError(...)
Exists(r) ==
  /\ pc[r] = "exists"
  /\ IF downloaded_file[r] \notin DOMAIN fs
     THEN Raise(r, Exc("DownloadError", MsgMissing(downloaded_file[r])))
     ELSE /\ pc' = [pc EXCEPT ![r] = "send"]
          /\ UNCHANGED <<raised, response, responses, ydl_opts, wfile, info,
                         downloaded_file, engine_calls>>
  /\ UNCHANGED <<now, ticks, fs, envVars, sweepVars, optVars, url, ftype, scans>>

\* The title, the outbound name, send_file and the headers.  A null title
\* makes re.sub raise TypeError; a file that is gone makes send_file raise
\* FileNotFoundError.
Send(r) ==
  /\ pc[r] = "send"
  /\ IF info[r] = NullTitle
     THEN Raise(r, Exc("TypeError", Msg("expected string or bytes-like object", NoName)))
     ELSE IF downloaded_file[r] \notin DOMAIN fs
     THEN Raise(r, Exc("FileNotFoundError",
                       Msg("No such file or directory", downloaded_file[r])))
     ELSE /\ Return(r, FileResponse(downloaded_file[r], fs[downloaded_file[r]],
                                    info[r], ftype[r]))
          /\ UNCHANGED <<raised, engine_calls>>
  /\ UNCHANGED <<now, ticks, fs, envVars, sweepVars, optVars, url, ftype, scans>>

\* ------------------------------------------------------------- the sweeper

NoLog == [kind |-> "none", n |-> 0]

\* A sweep whose now was taken once, when the module was loaded.
SweepStartStale ==
  /\ spc = "idle"
  /\ sweeps < MaxSweeps
  /\ sweeps' = sweeps + 1
  /\ sweepNow' = 0
  /\ count' = 0
  /\ sweepLog' = NoLog
  /\ todo' = {}
  /\ item' = NoName
  /\ snap' = fs
  /\ removed' = {}
  /\ spc' = "listdir"
  /\ UNCHANGED <<now, ticks, fs, envVars, reqVars, optVars>>

\* The scheduler calls cleanup_downloads: now = datetime.now(), count = 0.
SweepStart ==
  /\ spc = "idle"
  /\ sweeps < MaxSweeps
  /\ sweeps' = sweeps + 1
  /\ sweepNow' = now
  /\ count' = 0
  /\ sweepLog' = NoLog
  /\ todo' = {}
  /\ item' = NoName
  /\ snap' = fs
  /\ removed' = {}
  /\ spc' = "listdir"
  /\ UNCHANGED <<now, ticks, fs, envVars, reqVars, optVars>>

\* The outer except clause: the error is logged and the sweep is over.
SweepAbort ==
  /\ sweepLog' = [kind |-> "error", n |-> 0]
  /\ spc' = "idle"

\* os.listdir(DOWNLOAD_DIR): it raises when the directory is missing or
\* unreadable.
SweepListdir ==
  /\ spc = "listdir"
  /\ IF dirState # "ok"
     THEN /\ SweepAbort
          /\ UNCHANGED <<todo, snap>>
     ELSE /\ todo' = DOMAIN fs
          /\ snap' = fs
          /\ spc' = "loop"
          /\ UNCHANGED sweepLog
  /\ UNCHANGED <<sweeps, now, ticks, fs, envVars, reqVars, optVars, sweepNow, item, count, removed>>

\* The next entry of the listing (in the listing's order, which is the file
\* system's) and its os.path.isfile check.
SweepIsFile(f) ==
  /\ spc = "loop"
  /\ f \in todo
  /\ todo' = todo \ {f}
  /\ IF isfile(fs, f)
     THEN /\ item' = f
          /\ spc' = "getmtime"
     ELSE UNCHANGED <<item, spc>>
  /\ UNCHANGED <<sweeps, now, ticks, fs, envVars, reqVars, optVars, sweepNow, count, sweepLog,
                 snap, removed>>

\* os.path.getmtime(item_path) and the age test.  getmtime raises when the
\* file is gone, and only the outer except clause catches that.
SweepGetMtime ==
  /\ spc = "getmtime"
  /\ IF item \notin DOMAIN fs
     THEN SweepAbort
     ELSE /\ spc' = IF Expired(sweepNow, fs[item].mtime) THEN "remove" ELSE "loop"
          /\ UNCHANGED sweepLog
  /\ UNCHANGED <<sweeps, now, ticks, fs, envVars, reqVars, optVars, sweepNow, todo, item, count,
                 snap, removed>>

\* os.remove(item_path); count += 1, or the OSError logged by the inner
\* except clause.
SweepRemove ==
  /\ spc = "remove"
  /\ IF item \in DOMAIN fs /\ item \notin denied
     THEN /\ fs' = Unlink(fs, item)
          /\ count' = count + 1
          /\ removed' = removed \cup {item}
     ELSE UNCHANGED <<fs, count, removed>>
  /\ spc' = "loop"
  /\ UNCHANGED <<sweeps, now, ticks, envVars, reqVars, optVars, sweepNow, todo, item, sweepLog, snap>>

\* The loop is over: the count is logged and cleanup_downloads returns.
SweepFinish ==
  /\ spc = "loop"
  /\ todo = {}
  /\ sweepLog' = [kind |-> "count", n |-> count]
  /\ spc' = "idle"
  /\ UNCHANGED <<sweeps, now, ticks, fs, envVars, reqVars, optVars, sweepNow, todo, item, count,
                 snap, removed>>

\* ---------------------------------------------------------- environment

\* Steps by which the clock advances: a minute, or the retention threshold.
TickSteps == {1, Threshold}

Tick(d) ==
  /\ ticks < MaxTicks
  /\ ticks' = ticks + 1
  /\ now' = now + d
  /\ UNCHANGED <<fs, envVars, reqVars, sweepVars, optVars>>

\* A file of the directory is removed by something other than the sweep.
Vanish(f) ==
  /\ f \in DOMAIN fs
  /\ fs[f].kind = "file"
  /\ fs' = Unlink(fs, f)
  /\ UNCHANGED <<now, ticks, envVars, reqVars, sweepVars, optVars>>

\* ------------------------------------------------------- specifications

EmptyDir == [n \in {} |-> FileRec(0, TRUE, "old")]

InitEnv ==
  /\ dirState = "ok"
  /\ denied = {}
  /\ CA_CERT_PATH = None
  /\ caOnDisk = {}

InitReqs ==
  /\ pc = [r \in Reqs |-> "idle"]
  /\ url = [r \in Reqs |-> None]
  /\ ftype = [r \in Reqs |-> None]
  /\ ydl_opts = [r \in Reqs |-> NoOptions]
  /\ wfile = [r \in Reqs |-> NoName]
  /\ info = [r \in Reqs |-> NoTitle]
  /\ downloaded_file = [r \in Reqs |-> NoName]
  /\ raised = [r \in Reqs |-> NoExc]
  /\ response = [r \in Reqs |-> NoResponse]
  /\ engine_calls = [r \in Reqs |-> 0]
  /\ scans = [r \in Reqs |-> 0]
  /\ responses = [r \in Reqs |-> 0]

InitSweeper ==
  /\ spc = "idle"
  /\ sweepNow = 0
  /\ todo = {}
  /\ item = NoName
  /\ count = 0
  /\ sweepLog = NoLog
  /\ snap = EmptyDir
  /\ removed = {}
  /\ sweeps = 0

\* No text yet.
NoText == <<"<none>">>

InitSan ==
  /\ sanIn = [title |-> <<>>, max_length |-> DEFAULT_MAX_FILENAME_LENGTH]
  /\ sanOut = NoText

InitOpts ==
  /\ optIn = [format_type |-> "video", base |-> <<>>]
  /\ optOut = NoOptions
  /\ InitSan

\* The service after main(): the directory exists and is empty, no request
\* has arrived, the scheduler is started.
Init ==
  /\ now = 0
  /\ ticks = 0
  /\ fs = EmptyDir
  /\ InitEnv
  /\ InitReqs
  /\ InitSweeper
  /\ InitOpts

Sweeper ==
  \/ SweepStart
  \/ SweepListdir
  \/ \E f \in todo : SweepIsFile(f)
  \/ SweepGetMtime
  \/ SweepRemove
  \/ SweepFinish

Serve(R) ==
  \/ \E r \in R, u \in UrlArgs, f \in FormatArgs : Request(r, u, f)
  \/ \E r \in R, e \in VideoExts \cup {AudioExt} : EngineWrite(r, e)
  \/ \E r \in R, t \in Titles : EngineFinish(r, t)
  \/ \E r \in R, t \in Titles : EngineNoFile(r, t)
  \/ \E r \in R, x \in ErrTexts : EngineFail(r, x)
  \/ \E r \in R : Scan(r)
  \/ \E r \in R : Exists(r)
  \/ \E r \in R : Send(r)

\* Concurrent requests on the shared directory.
Next == Serve(Reqs)

Spec == Init /\ [][Next]_vars

\* One request, the scheduled sweep and the clock.
NextRace ==
  \/ Serve({"r1"})
  \/ Sweeper
  \/ Tick(Threshold + 1)

SpecRace == Init /\ [][NextRace]_vars

\* ---- the sweep on a directory that earlier runs have filled

\* The entries a stand-alone sweep may find.
SweepNames ==
  {[base |-> base_filename("https://a.example/v1"), ext |-> "mp4"],
   [base |-> base_filename("https://a.example/v1"), ext |-> AudioExt],
   [base |-> base_filename("https://b.example/v2"), ext |-> "mp4"],
   SubDir}

EntryRecs(f) ==
  IF f = SubDir THEN {DirRec(0)} ELSE {FileRec(m, TRUE, "old") : m \in 0..MaxSkew}

\* Every directory over SweepNames with modification times in 0..MaxSkew.
Dirs ==
  UNION {{d \in [S -> UNION {EntryRecs(f) : f \in S}] : \A f \in S : d[f] \in EntryRecs(f)} :
         S \in SUBSET SweepNames}

\* The clock stands one minute past the threshold, so that the files are
\* aged just above, exactly at and just below it.
InitSweepDir ==
  /\ now = Threshold + 1
  /\ ticks = 0
  /\ fs \in Dirs
  /\ CA_CERT_PATH = None
  /\ caOnDisk = {}
  /\ InitReqs
  /\ InitSweeper
  /\ InitOpts

\* Nothing but the sweep touches the directory, and the OS refuses nothing.
InitQuiet ==
  /\ InitSweepDir
  /\ dirState = "ok"
  /\ denied = {}

NextQuiet ==
  \/ Sweeper
  \/ \E d \in TickSteps : Tick(d)

SpecQuiet == InitQuiet /\ [][NextQuiet]_vars

\* The directory may be missing or unreadable, the OS may refuse to unlink
\* a file, and files may vanish while the sweep runs.
InitSweep ==
  /\ InitSweepDir
  /\ dirState \in {"ok", "missing", "unreadable"}
  /\ dirState # "ok" => fs = EmptyDir
  /\ denied \in {D \in SUBSET (DOMAIN fs \ {SubDir}) : Cardinality(D) <= 1}

NextSweep ==
  \/ Sweeper
  \/ \E f \in SweepNames : Vanish(f)

SpecSweep == InitSweep /\ [][NextSweep]_vars

\* ---- the scheduled sweep, run to completion, while time passes

NextLive ==
  \/ Sweeper
  \/ \E d \in TickSteps : Tick(d)

\* The scheduler fires the sweep whenever it is due and a started sweep runs
\* on; the clock does not stop.
SpecLive ==
  /\ InitSweep
  /\ [][NextLive]_vars
  /\ WF_vars(Sweeper)
  /\ WF_vars(\E d \in TickSteps : Tick(d))

\* ---- requests and the sweep on a directory with a subdirectory

\* A subdirectory and a file of an earlier day.
FrameDir ==
  Put(Put(EmptyDir, SubDir, DirRec(0)),
      [base |-> base_filename("https://b.example/v2"), ext |-> "mp4"], FileRec(0, TRUE, "old"))

InitFrame ==
  /\ now = Threshold + 1
  /\ ticks = 0
  /\ fs = FrameDir
  /\ InitEnv
  /\ InitReqs
  /\ InitSweeper
  /\ InitOpts

NextFrame ==
  \/ Serve({"r1"})
  \/ Sweeper

SpecFrame == InitFrame /\ [][NextFrame]_vars

\* ---- the option builder on free inputs

InitOptions ==
  /\ now = 0
  /\ ticks = 0
  /\ fs = EmptyDir
  /\ dirState = "ok"
  /\ denied = {}
  /\ CA_CERT_PATH \in CaPaths
  /\ caOnDisk \in SUBSET (CaPaths \ {None, ""})
  /\ InitReqs
  /\ InitSweeper
  /\ optIn \in [format_type : {"video", "audio"}, base : BaseNames]
  /\ optOut = NoOptions
  /\ InitSan

BuildOptions ==
  /\ optOut = NoOptions
  /\ optOut' = get_download_options(optIn.format_type, optIn.base,
                                    CA_CERT_PATH, CA_CERT_PATH \in caOnDisk)
  /\ UNCHANGED <<now, ticks, fs, envVars, reqVars, sweepVars, optIn, sanIn, sanOut>>

SpecOptions == InitOptions /\ [][BuildOptions]_vars

\* ---- the sanitizer on free inputs

\* The characters of the titles: an ASCII letter, underscore, hyphen, a
\* space, a tab, two punctuation marks and a non-ASCII letter.
TitleChars == {"a", "_", Hyphen, " ", "\t", ".", "!", "E'"}

RECURSIVE Texts(_)
\* The texts over TitleChars of at most n characters.
Texts(n) ==
  IF n = 0 THEN {<<>>}
  ELSE Texts(n - 1) \cup {Append(t, c) : t \in {x \in Texts(n - 1) : Len(x) = n - 1}, c \in TitleChars}

InitSanitize ==
  /\ now = 0
  /\ ticks = 0
  /\ fs = EmptyDir
  /\ InitEnv
  /\ InitReqs
  /\ InitSweeper
  /\ optIn = [format_type |-> "video", base |-> <<>>]
  /\ optOut = NoOptions
  /\ sanIn \in [title : Texts(MaxTitleLen),
                 max_length : (0..MaxLen) \cup {DEFAULT_MAX_FILENAME_LENGTH}]
  /\ sanOut = NoText

Sanitize ==
  /\ sanOut = NoText
  /\ sanOut' = sanitize_filename(sanIn.title, sanIn.max_length)
  /\ UNCHANGED <<now, ticks, fs, envVars, reqVars, sweepVars, optIn, optOut, sanIn>>

SpecSanitize == InitSanitize /\ [][Sanitize]_vars

\* ------------------------------------------------------------ properties

Truthy(u) == u # None /\ u # ""

\* The response is jsonify({'error': text}) with the status.
IsJsonError(resp, status, text) ==
  /\ resp.status = status
  /\ resp.kind = "json"
  /\ resp.error.msg = text

\* C1: a request whose url is missing or empty is answered 400 "URL
\* parameter is required"; otherwise one whose format is neither video nor
\* audio is answered 400 "Invalid format type"; in both cases the engine is
\* not invoked, the directory is not scanned and the directory is unchanged.
C1_ValidationRejects ==
  [][\A r \in Reqs :
       (pc[r] = "idle" /\ pc'[r] # "idle") =>
         /\ ~Truthy(url'[r]) =>
              /\ pc'[r] = "done"
              /\ IsJsonError(response'[r], 400, "URL parameter is required")
              /\ response'[r].error.arg = NoName
              /\ engine_calls'[r] = 0 /\ scans'[r] = 0 /\ fs' = fs
         /\ (Truthy(url'[r]) /\ ftype'[r] \notin {"video", "audio"}) =>
              /\ pc'[r] = "done"
              /\ IsJsonError(response'[r], 400, "Invalid format type")
              /\ response'[r].error.arg = NoName
              /\ engine_calls'[r] = 0 /\ scans'[r] = 0 /\ fs' = fs
         /\ (Truthy(url'[r]) /\ ftype'[r] \in {"video", "audio"}) =>
              response'[r] = NoResponse]_vars
  /\ [](\A r \in Reqs : response[r].status = 400 =>
          pc[r] = "done" /\ engine_calls[r] = 0 /\ scans[r] = 0)

\* Both rejections have happened while another request's file is on disk.
C1_Witness ==
  /\ fs # EmptyDir
  /\ \E r \in Reqs : pc[r] = "done" /\ url[r] = "" /\ ftype[r] = "gif"
                     /\ response[r].error = MsgUrlRequired

\* Second witness state of C1's other case: the format rejected.
C1_WitnessFormat ==
  \E r \in Reqs : pc[r] = "done" /\ Truthy(url[r]) /\ response[r].error = MsgInvalidFormat

\* C2: when the engine call has returned and the scan finds no file under
\* the request's storage-key prefix, the request ends with status 500 and
\* the 'download finished but no file found' error, never with a success.
C2_NoArtifactIsFailure ==
  [][\A r \in Reqs :
       (pc[r] = "scan" /\ pc'[r] # "scan"
        /\ ~\E f \in DOMAIN fs : f.base = base_filename(url[r])) =>
         /\ pc'[r] = "done"
         /\ IsJsonError(response'[r], 500, "download finished but no file found")
         /\ scans'[r] = 1]_vars

\* The engine wrote and finished a file, the sweep removed it, and the scan
\* then found nothing.
C2_Witness ==
  \E r \in Reqs :
    /\ pc[r] = "done"
    /\ raised[r] = Exc("DownloadError", MsgNotFound)
    /\ response[r].status = 500
    /\ removed # {}

\* C3: with concurrent requests for the same url, no success response
\* streams a file that an engine invocation has not finished writing.
C3_NoPartialStream ==
  \A r \in Reqs : response[r].status = 200 => response[r].complete

\* C4: in a sweep that nothing disturbs, a regular file is deleted if and
\* only if its age at the start of the sweep is strictly greater than the
\* threshold; a file aged exactly the threshold, or less, is retained.
C4_DeletedIffOlder ==
  (spc = "idle" /\ sweepLog.kind = "count") =>
    \A f \in DOMAIN snap :
      snap[f].kind = "file" =>
        ((f \notin DOMAIN fs) <=> (sweepNow - snap[f].mtime > CLEANUP_INTERVAL_HOURS * 60))

\* A finished sweep that found files aged 23h59m, 24h and 24h01m: the first
\* two are still there, the third is gone.
C4_Witness ==
  /\ spc = "idle" /\ sweepLog.kind = "count"
  /\ \E f, g, h \in DOMAIN snap :
       /\ snap[f].kind = "file" /\ sweepNow - snap[f].mtime = 23 * 60 + 59 /\ f \in DOMAIN fs
       /\ snap[g].kind = "file" /\ sweepNow - snap[g].mtime = 24 * 60 /\ g \in DOMAIN fs
       /\ snap[h].kind = "file" /\ sweepNow - snap[h].mtime = 24 * 60 + 1 /\ h \notin DOMAIN fs

\* C5: a failure on one file does not abort the sweep: once the sweep is
\* over every listed entry has been examined, and no over-age regular file
\* that the OS lets go is left.
C5_SweepContinues ==
  (spc = "idle" /\ sweepLog.kind # "none" /\ dirState = "ok") =>
    /\ todo = {}
    /\ \A f \in DOMAIN snap \cap DOMAIN fs :
         (snap[f].kind = "file" /\ f \notin denied) =>
           ~(sweepNow - snap[f].mtime > CLEANUP_INTERVAL_HOURS * 60)

\* C6: every sweep that is over has reported the count of the files it
\* removed, whatever the state of the directory.
C6_ReportsCount ==
  (spc = "idle" /\ sweeps > 0) =>
    /\ sweepLog.kind = "count"
    /\ sweepLog.n = Cardinality(removed)

\* C7: a request whose selected artifact is gone when it is checked or
\* opened ends with a 500 JSON error, and a success response is only given
\* for a file that is on disk when it is opened.
C7_DeletedArtifactIsFailure ==
  [][\A r \in Reqs :
       /\ (pc[r] \in {"exists", "send"} /\ pc'[r] # pc[r]
           /\ downloaded_file[r] \notin DOMAIN fs) =>
            /\ pc'[r] = "done"
            /\ response'[r].status = 500
            /\ response'[r].kind = "json"
            /\ response'[r].error # NoMsg
       /\ (response[r].status # 200 /\ response'[r].status = 200) =>
            response'[r].file = downloaded_file[r] /\ downloaded_file[r] \in DOMAIN fs]_vars

\* The sweep removed the selected file between the existence check and
\* send_file.
C7_Witness ==
  \E r \in Reqs :
    /\ pc[r] = "done"
    /\ raised[r].cls = "FileNotFoundError"
    /\ raised[r].text.arg \in removed
    /\ response[r].status = 500

\* The sweep removed the selected file between the scan and the existence
\* check.
C7_WitnessBeforeCheck ==
  \E r \in Reqs :
    /\ pc[r] = "done"
    /\ raised[r].cls = "DownloadError"
    /\ raised[r].text.arg \in removed
    /\ response[r].status = 500

\* C8: every failure after validation is answered with status 500 and a
\* JSON error; unless the failure is the handler's own DownloadError, the
\* message is the one fixed text, whatever the exception says.
C8_GenericFailure ==
  \A r \in Reqs :
    raised[r] # NoExc =>
      /\ pc[r] = "done"
      /\ response[r].status = 500
      /\ response[r].kind = "json"
      /\ raised[r].cls # "DownloadError" =>
           response[r].error = [msg |-> "internal server error", arg |-> NoName]
      /\ raised[r].cls = "DownloadError" => response[r].error = raised[r].text

\* An engine failure with one of the two texts has been answered.
C8_Witness ==
  \E r \in Reqs :
    /\ raised[r].cls = "yt_dlp.utils.DownloadError"
    /\ raised[r].text.msg = "ERROR: network unreachable"
    /\ response[r].status = 500

\* C9: a request invokes the engine at most once, scans the directory at
\* most once and gives exactly one response; after a failure it invokes
\* nothing again.
C9_NoRetry ==
  [](\A r \in Reqs :
       /\ engine_calls[r] <= 1 /\ scans[r] <= 1 /\ responses[r] <= 1
       /\ pc[r] = "done" <=> responses[r] = 1
       /\ responses[r] = 1 <=> response[r] # NoResponse)
  /\ [][\A r \in Reqs :
          raised[r] # NoExc =>
            /\ engine_calls'[r] = engine_calls[r]
            /\ scans'[r] = scans[r]
            /\ response'[r] = response[r]]_vars

\* A request has failed at the last step, after one engine call and one scan.
C9_Witness ==
  \E r \in Reqs :
    /\ pc[r] = "done"
    /\ raised[r].cls = "FileNotFoundError"
    /\ engine_calls[r] = 1 /\ scans[r] = 1 /\ responses[r] = 1

\* C10: the options verify certificates with cafile = the configured path
\* exactly when a path is configured and exists on disk, and otherwise skip
\* verification and have no cafile; the selector is best without
\* post-processing for video and bestaudio with the m4a extraction for
\* audio; the template is DOWNLOAD_DIR/<base name>.%(ext)s.
C10_Options ==
  optOut # NoOptions =>
    /\ CA_CERT_PATH \in caOnDisk =>
         /\ optOut.nocheckcertificate = FALSE
         /\ "cafile" \in DOMAIN optOut
         /\ optOut.cafile = CA_CERT_PATH
    /\ CA_CERT_PATH \notin caOnDisk =>
         /\ optOut.nocheckcertificate = TRUE
         /\ "cafile" \notin DOMAIN optOut
    /\ optIn.format_type = "video" =>
         /\ optOut.format = "best"
         /\ "postprocessors" \notin DOMAIN optOut
    /\ optIn.format_type = "audio" =>
         /\ optOut.format = "bestaudio"
         /\ "postprocessors" \in DOMAIN optOut
         /\ optOut.postprocessors = <<[key |-> "FFmpegExtractAudio", preferredcodec |-> "m4a"]>>
    /\ optOut.outtmpl = [dir |-> "DOWNLOAD_DIR", base |-> optIn.base, ext |-> "%(ext)s"]

\* Options built for audio with a configured path that is not on disk,
\* while another path is.
C10_Witness ==
  /\ optOut # NoOptions
  /\ optIn.format_type = "audio"
  /\ CA_CERT_PATH = "/etc/ssl/mitm.pem"
  /\ caOnDisk = {"/opt/proxy/ca.pem"}

\* How often the character c occurs in t.
Occurrences(t, c) == Cardinality({i \in 1..Len(t) : t[i] = c})

\* The maximal whitespace runs of t, by their first positions.
SpaceRuns(t) ==
  {i \in 1..Len(t) : t[i] \in {" ", "\t"} /\ (i = 1 \/ t[i - 1] \notin {" ", "\t"})}

\* The ASCII characters [A-Za-z0-9_-] among the characters of the titles.
AsciiSafe == {"a", "_", "-"}

\* t carries an extension of word characters: a "." after at least one
\* other character, followed by word characters only.
CarriesExtension(t) ==
  /\ splitext(t)[2] # <<>>
  /\ Len(splitext(t)[2]) > 1
  /\ \A i \in 1..Len(t) : t[i] \in AsciiSafe \/ i = SplitAt(t)

\* C11: sanitize_filename always returns a text of at most max_length
\* characters, the empty text for the empty title; and when a title made of
\* a base and an extension is longer than max_length, the result is the
\* truncated base followed by the extension intact, max_length characters
\* in all.
C11_BoundedKeepsExtension ==
  sanOut # NoText =>
    /\ Len(sanOut) <= sanIn.max_length
    /\ sanIn.title = <<>> => sanOut = <<>>
    /\ (/\ CarriesExtension(sanIn.title)
        /\ Len(sanIn.title) > sanIn.max_length
        /\ Len(splitext(sanIn.title)[2]) <= sanIn.max_length) =>
         /\ Len(sanOut) = sanIn.max_length
         /\ SubSeq(sanOut, Len(sanOut) - Len(splitext(sanIn.title)[2]) + 1, Len(sanOut))
              = splitext(sanIn.title)[2]

Kept(t) == SelectSeq(t, LAMBDA c : c \in {"a", "_", "E'", "-", " ", "\t"})

C14_DeletesOnlyAged ==
  [][\A f \in DOMAIN fs :
       (spc = "remove" /\ f \notin DOMAIN fs') => now - fs[f].mtime > Threshold]_vars

OutboundName(t, f) == quote(sanitize_filename(t, DEFAULT_MAX_FILENAME_LENGTH) \o file_ext(f))

\* C16: a request whose engine call returned and whose artifact is on disk
\* answers 200 with the outbound name built from the engine's title, and
\* with the name built from 'video' when the title is absent, null or empty.
C16_TitleOrPlaceholder ==
  [][\A r \in Reqs :
       (pc[r] = "send" /\ downloaded_file[r] \in DOMAIN fs /\ pc'[r] = "done") =>
         /\ response'[r].status = 200
         /\ response'[r].filename =
              OutboundName(IF info[r] \in {NoTitle, NullTitle, EmptyTitle}
                           THEN <<"v", "i", "d", "e", "o">> ELSE info[r],
                           downloaded_file[r])]_vars

\* C17: the file of every success response was written by the engine call
\* of the request that is answered, and it has the format that request asked
\* for and that its X-File-Type header names.
C17_OwnArtifact ==
  \A r \in Reqs :
    response[r].kind = "file" =>
      /\ response[r].writer = r
      /\ response[r].filetype = ftype[r]
      /\ response[r].file.ext \in EngineExts(response[r].filetype)

\* C18: a step of the sweep creates and modifies no entry and removes
\* nothing but regular files; a step of a request removes no entry; a
\* request rejected at validation leaves the directory as it is.
C18_Frame ==
  [][/\ sweepVars' # sweepVars =>
          /\ \A f \in DOMAIN fs' : f \in DOMAIN fs /\ fs'[f] = fs[f]
          /\ \A f \in DOMAIN fs \ DOMAIN fs' : fs[f].kind = "file"
     /\ reqVars' # reqVars => DOMAIN fs \subseteq DOMAIN fs'
     /\ \A r \in Reqs : (pc[r] = "idle" /\ pc'[r] = "done") => fs' = fs]_vars

\* The sweep has met the subdirectory, the old file and the file a request
\* was writing, has removed the old file alone and is over; the request has
\* been answered.
C18_Witness ==
  /\ spc = "idle"
  /\ sweepLog = [kind |-> "count", n |-> 1]
  /\ Cardinality(DOMAIN snap) = 3
  /\ SubDir \in DOMAIN fs
  /\ pc["r1"] = "done"
  /\ \E f \in DOMAIN fs : fs[f].writer = "r1"

====
